---- MODULE Spec2Model ----
(***************************************************************************)
(* CYK recognizer of src/src/App.jsx: grammar compiler, tokenizers,        *)
(* cykWithPointers, buildParseTree, the trace variant cykAlgorithm and the *)
(* Generate handlers of the Simulator and PGC tabs.                        *)
(*                                                                         *)
(* A JavaScript string is a sequence of one-character strings; array and   *)
(* table indices are 0-based as in the source (tokens[i] is At(tokens,i)). *)
(***************************************************************************)
EXTENDS Integers, Sequences, FiniteSets, TLC

\* ------------------------------------------------------------------ bounds
MaxLen == 3
MaxRules == 2
MaxLines == 3
MaxRaw == 3

\* ------------------------------------------------------- strings and arrays
Range(s) == {s[x] : x \in 1..Len(s)}

At(s, i) == s[i + 1]

Str(c) == <<c>>

SeqsUpTo(S, n) == UNION {[1..m -> S] : m \in 0..n}

\* JavaScript evaluates a statement before the next one starts; TLC passes
\* operator arguments unevaluated.  Done(v) makes a loop evaluate the state
\* left by the previous iteration before it runs the next one.
Done(v) == v = v

\* the value null
Null == [type |-> "null"]

\* ------------------------------------------------------------ JS containers
\* Set.prototype.add: insertion-ordered, no duplicates
SetAdd(set, x) == IF x \in Range(set) THEN set ELSE Append(set, x)

SetHas(set, x) == x \in Range(set)

\* Map.prototype.has / get on a map kept as a function over its keys
MapHas(m, key) == key \in DOMAIN m

MapUnshift(m, key, rec) ==
  IF MapHas(m, key) THEN [m EXCEPT ![key] = <<rec>> \o @]
  ELSE [x \in (DOMAIN m) \cup {key} |-> IF x = key THEN <<rec>> ELSE m[x]]

\* if (!m.has(A)) m.set(A, []); m.get(A).push(rec)
MapPush(m, key, rec) ==
  IF MapHas(m, key) THEN [m EXCEPT ![key] = Append(@, rec)]
  ELSE [x \in (DOMAIN m) \cup {key} |-> IF x = key THEN <<rec>> ELSE m[x]]

EmptyMap == [x \in {} |-> <<>>]

\* ------------------------------------------------------------------ grammar
\* grammar.rules is an object: a list of own properties in insertion order
RuleIndex(rules, A) ==
  IF \E q \in 1..Len(rules) : rules[q].lhs = A
  THEN CHOOSE q \in 1..Len(rules) : rules[q].lhs = A
  ELSE 0

HasRule(rules, A) == RuleIndex(rules, A) # 0

RulesOf(rules, A) == rules[RuleIndex(rules, A)].prods

Digits == <<"0", "1", "2", "3", "4", "5", "6", "7", "8", "9">>

IsDigit(c) == c \in Range(Digits)

DigitVal(c) == (CHOOSE d \in 1..10 : Digits[d] = c) - 1

\* lexicographic s <= t for digit strings of equal length
RECURSIVE DigitsLeq(_, _)
DigitsLeq(s, t) ==
  IF Len(s) = 0 THEN TRUE
  ELSE IF DigitVal(Head(s)) < DigitVal(Head(t)) THEN TRUE
  ELSE IF DigitVal(Head(s)) > DigitVal(Head(t)) THEN FALSE
  ELSE DigitsLeq(Tail(s), Tail(t))

MaxArrayIndex == <<"4", "2", "9", "4", "9", "6", "7", "2", "9", "4">>

\* a property key that is a canonical array index (an integer-like key)
IsArrayIndex(key) ==
  /\ Len(key) >= 1
  /\ \A x \in 1..Len(key) : IsDigit(key[x])
  /\ Len(key) > 1 => key[1] # "0"
  /\ Len(key) <= 10
  /\ Len(key) = 10 => DigitsLeq(key, MaxArrayIndex)

IndexLess(s, t) ==
  \/ Len(s) < Len(t)
  \/ Len(s) = Len(t) /\ s # t /\ DigitsLeq(s, t)

\* Object.keys: integer-like keys in ascending order, then the other keys
\* in insertion order
RECURSIVE SortIndexKeys(_)
SortIndexKeys(keys) ==
  IF keys = {} THEN <<>>
  ELSE LET least == CHOOSE s \in keys : \A t \in keys \ {s} : IndexLess(s, t)
       IN <<least>> \o SortIndexKeys(keys \ {least})

RECURSIVE StringKeys(_, _)
StringKeys(rules, q) ==
  IF q > Len(rules) THEN <<>>
  ELSE IF IsArrayIndex(rules[q].lhs) THEN StringKeys(rules, q + 1)
  ELSE <<rules[q].lhs>> \o StringKeys(rules, q + 1)

ObjectKeys(rules) ==
  SortIndexKeys({rules[q].lhs : q \in {x \in 1..Len(rules) : IsArrayIndex(rules[x].lhs)}})
    \o StringKeys(rules, 1)

\* ----------------------------------------------------------- string methods
\* the characters \s matches and trim() removes, among those of the model
Whitespace == {" ", "\t", "\n", "\r", "\f"}

IsSpace(c) == c \in Whitespace

Lower == {"a", "b", "c", "d", "e", "f", "g", "h", "i", "j", "k", "l", "m",
          "n", "o", "p", "q", "r", "s", "t", "u", "v", "w", "x", "y", "z"}

Upper == {"A", "B", "C", "D", "E", "F", "G", "H", "I", "J", "K", "L", "M",
          "N", "O", "P", "Q", "R", "S", "T", "U", "V", "W", "X", "Y", "Z"}

Least(P) == CHOOSE x \in P : \A y \in P : x <= y

Greatest(P) == CHOOSE x \in P : \A y \in P : y <= x

\* the elements of a finite set of integers in ascending order
Ascending(P) ==
  [k \in 1..Cardinality(P) |->
     CHOOSE x \in P : Cardinality({y \in P : y < x}) = k - 1]

\* s.slice(from, to) with 0 <= from, to <= s.length (0-based, to exclusive)
Slice(s, from, to) ==
  IF from >= to THEN <<>> ELSE SubSeq(s, from + 1, to)

\* s.trim()
Trim(s) ==
  LET keep == {x \in 1..Len(s) : ~IsSpace(s[x])} IN
  IF keep = {} THEN <<>> ELSE SubSeq(s, Least(keep), Greatest(keep))

\* s.split(c) for a one-character separator c
SplitChar(s, c) ==
  LET cuts == Ascending({0} \cup {x \in 1..Len(s) : s[x] = c} \cup {Len(s) + 1})
  IN [k \in 1..(Len(cuts) - 1) |-> Slice(s, cuts[k], cuts[k + 1] - 1)]

\* s.split(/\s+/): the pieces between the maximal runs of whitespace,
\* empty first or last piece included
SplitSpaces(s) ==
  LET runStart == Ascending({x \in 1..Len(s) :
                     IsSpace(s[x]) /\ (x = 1 \/ ~IsSpace(s[x - 1]))})
      runEnd == Ascending({x \in 1..Len(s) :
                     IsSpace(s[x]) /\ (x = Len(s) \/ ~IsSpace(s[x + 1]))})
      runs == Len(runStart)
  IN [k \in 1..(runs + 1) |->
        Slice(s, IF k = 1 THEN 0 ELSE runEnd[k - 1],
                 IF k = runs + 1 THEN Len(s) ELSE runStart[k] - 1)]

NonEmpty(s) == Len(s) > 0

\* s.indexOf("->") and s.indexOf(c): 0-based, -1 when absent
IndexOfAsciiArrow(s) ==
  LET hits == {x \in 1..(Len(s) - 1) : s[x] = "-" /\ s[x + 1] = ">"} IN
  IF hits = {} THEN -1 ELSE Least(hits) - 1

IndexOfChar(s, c) ==
  LET hits == {x \in 1..Len(s) : s[x] = c} IN
  IF hits = {} THEN -1 ELSE Least(hits) - 1

\* s.replace(/\s+/g, "")
StripSpaces(s) == SelectSeq(s, LAMBDA c : ~IsSpace(c))

\* s.split(''): the characters as one-character strings
SplitEmpty(s) == [x \in 1..Len(s) |-> Str(s[x])]

\* ------------------------------------------------------ parseGrammarFromText
\* the property names every object inherits from Object.prototype: for these
\* rules[left] is truthy before any assignment and has no push method
ObjectPrototypeKeys ==
  {<<"c", "o", "n", "s", "t", "r", "u", "c", "t", "o", "r">>,
   <<"_", "_", "p", "r", "o", "t", "o", "_", "_">>,
   <<"h", "a", "s", "O", "w", "n", "P", "r", "o", "p", "e", "r", "t", "y">>,
   <<"i", "s", "P", "r", "o", "t", "o", "t", "y", "p", "e", "O", "f">>,
   <<"p", "r", "o", "p", "e", "r", "t", "y", "I", "s", "E", "n", "u", "m", "e", "r", "a", "b", "l", "e">>,
   <<"t", "o", "L", "o", "c", "a", "l", "e", "S", "t", "r", "i", "n", "g">>,
   <<"t", "o", "S", "t", "r", "i", "n", "g">>,
   <<"v", "a", "l", "u", "e", "O", "f">>,
   <<"_", "_", "d", "e", "f", "i", "n", "e", "G", "e", "t", "t", "e", "r", "_", "_">>,
   <<"_", "_", "d", "e", "f", "i", "n", "e", "S", "e", "t", "t", "e", "r", "_", "_">>,
   <<"_", "_", "l", "o", "o", "k", "u", "p", "G", "e", "t", "t", "e", "r", "_", "_">>,
   <<"_", "_", "l", "o", "o", "k", "u", "p", "S", "e", "t", "t", "e", "r", "_", "_">>}

TypeError == [type |-> "TypeError"]

QuotedMatchApostrophes(trimmed) ==
  /\ Len(trimmed) >= 3
  /\ trimmed[1] = "'"
  /\ trimmed[Len(trimmed)] = "'"
  /\ \A x \in 2..(Len(trimmed) - 1) : trimmed[x] # "'"

\* trimmed.match(/^"([^"]+)"$/)
QuotedMatch(trimmed) ==
  /\ Len(trimmed) >= 3
  /\ trimmed[1] = "\""
  /\ trimmed[Len(trimmed)] = "\""
  /\ \A x \in 2..(Len(trimmed) - 1) : trimmed[x] # "\""

\* /^[a-z]$/.test(sym)
IsLowerLetter(sym) == Len(sym) = 1 /\ sym[1] \in Lower

IsUpperTriple(sym) ==
  Len(sym) = 3 /\ sym[1] \in Upper /\ sym[2] \in Upper /\ sym[3] \in Upper

\* /^[A-Z]{2}$/.test(sym)
IsUpperPair(sym) == Len(sym) = 2 /\ sym[1] \in Upper /\ sym[2] \in Upper

\* rules[left].push(prod); rules[left] is the own array created at line 98,
\* or an inherited value without push, and then the call throws
PushRule(st, left, prod) ==
  LET q == RuleIndex(st.rules, left) IN
  IF q = 0 THEN [st EXCEPT !.thrown = TRUE]
  ELSE [st EXCEPT !.rules[q].prods = Append(@, prod)]

AddVariables(st, syms) ==
  [st EXCEPT !.variables = IF Len(syms) = 1 THEN SetAdd(@, syms[1])
                           ELSE SetAdd(SetAdd(@, syms[1]), syms[2])]

AddTerminalSymbol(st, token) == [st EXCEPT !.terminals = SetAdd(@, token)]

\* the body of the forEach over the alternatives (lines 103-141)
Alternative(st, left, prod) ==
  LET trimmed == Trim(prod)
      parts == SelectSeq(SplitSpaces(trimmed), NonEmpty)
  IN
  IF st.thrown THEN st
  ELSE IF QuotedMatch(trimmed)
  THEN LET token == SubSeq(trimmed, 2, Len(trimmed) - 1) IN
       PushRule(AddTerminalSymbol(st, token), left, <<token>>)
  ELSE IF Len(parts) = 1
  THEN LET sym == parts[1] IN
       IF IsLowerLetter(sym)
       THEN PushRule(AddTerminalSymbol(st, sym), left, <<sym>>)
       ELSE IF IsUpperPair(sym)
       THEN PushRule(AddVariables(st, <<Str(sym[1]), Str(sym[2])>>), left,
                     <<Str(sym[1]), Str(sym[2])>>)
       ELSE PushRule(AddVariables(st, <<sym>>), left, <<sym>>)
  ELSE IF Len(parts) = 2
  THEN PushRule(AddVariables(st, parts), left, parts)
  ELSE st

RECURSIVE AlternativesLoop(_, _, _, _)
AlternativesLoop(st, left, alts, p) ==
  IF Done(st) /\ p > Len(alts) THEN st
  ELSE AlternativesLoop(Alternative(st, left, alts[p]), left, alts, p + 1)

\* const arrowIndex = line.indexOf("->");
\* const altArrowIndex = arrowIndex === -1 ? line.indexOf("→") : arrowIndex;
Splitter(line) ==
  IF IndexOfAsciiArrow(line) = -1 THEN IndexOfChar(line, "→")
  ELSE IndexOfAsciiArrow(line)

\* line.slice(splitter + 2).trim()
RightSide(line, splitter) == Trim(Slice(line, splitter + 2, Len(line)))

\* line.slice(0, splitter).trim().replace(/\s+/g, "")
LeftSide(line, splitter) == StripSpaces(Trim(Slice(line, 0, splitter)))

\* if (idx === 0 && left) startSymbol = left
StartSymbolAfter(st, idx, left) ==
  IF idx = 0 /\ Len(left) > 0 THEN left ELSE st.startSymbol

\* if (!rules[left]) rules[left] = []
EnsureRule(rules, left) ==
  IF HasRule(rules, left) \/ left \in ObjectPrototypeKeys THEN rules
  ELSE Append(rules, [lhs |-> left, prods |-> <<>>])

\* the body of lines.forEach((line, idx) => ...) (lines 90-142)
Line(st, line, idx) ==
  LET splitter == Splitter(line)
      left == LeftSide(line, splitter)
      right == RightSide(line, splitter)
      alts == [p \in 1..Len(SplitChar(right, "|")) |-> Trim(SplitChar(right, "|")[p])]
  IN
  IF st.thrown \/ splitter = -1 THEN st
  ELSE AlternativesLoop(
         [st EXCEPT !.startSymbol = StartSymbolAfter(st, idx, left),
                    !.rules = EnsureRule(@, left),
                    !.variables = SetAdd(@, left)],
         left, alts, 1)

RECURSIVE LinesLoop(_, _, _)
LinesLoop(st, lines, idx) ==
  IF Done(st) /\ ~(idx < Len(lines)) THEN st
  ELSE LinesLoop(Line(st, At(lines, idx), idx), lines, idx + 1)

\* text.split("\n").map((l) => l.trim()).filter((l) => l.length > 0)
LinesOf(text) ==
  SelectSeq([k \in 1..Len(SplitChar(text, "\n")) |-> Trim(SplitChar(text, "\n")[k])],
            NonEmpty)

parseGrammarFromText(text) ==
  LET st0 == [rules |-> <<>>, variables |-> <<>>, terminals |-> <<>>,
              startSymbol |-> Str("S"), thrown |-> FALSE]
      st1 == LinesLoop(st0, LinesOf(text), 0)
  IN IF st1.thrown THEN TypeError
     ELSE [variables |-> st1.variables, terminals |-> st1.terminals,
           startSymbol |-> st1.startSymbol, rules |-> st1.rules]

\* ---------------------------------------------------------------- tokenizers
\* simWord.includes(' ') ? simWord.trim().split(/\s+/) : simWord.trim().split('')
SimulatorTokens(simWord) ==
  IF " " \in Range(simWord) THEN SplitSpaces(Trim(simWord))
  ELSE SplitEmpty(Trim(simWord))

\* pgcSentence.trim().split(/\s+/)
PgcTokens(pgcSentence) == SplitSpaces(Trim(pgcSentence))

\* ---------------------------------------------------------- cykWithPointers
\* Array(n).fill(null).map(() => Array(n).fill(null).map(() => new Set()))
NewTable(n) == [i \in 0..(n - 1) |-> [j \in 0..(n - 1) |-> <<>>]]

NewBack(n) == [i \in 0..(n - 1) |-> [j \in 0..(n - 1) |-> EmptyMap]]

\* prod.length === 1 && prod[0] === tok
TerminalMatch(prod, tok) == Len(prod) = 1 /\ At(prod, 0) = tok

AddTerminalWithoutRecord(st, i, A, tok) ==
  [table |-> [st.table EXCEPT ![i][i] = SetAdd(@, A)], back |-> st.back]

\* table[i][i].add(A); back[i][i].get(A).push({type:'terminal', token: tok})
AddTerminal(st, i, A, tok) ==
  [table |-> [st.table EXCEPT ![i][i] = SetAdd(@, A)],
   back  |-> [st.back EXCEPT ![i][i] =
                MapPush(@, A, [type |-> "terminal", token |-> tok])]]

RECURSIVE DiagProdLoop(_, _, _, _, _, _)
DiagProdLoop(st, i, tok, A, prods, p) ==
  IF Done(st) /\ p > Len(prods) THEN st
  ELSE DiagProdLoop(IF TerminalMatch(prods[p], tok)
                    THEN AddTerminal(st, i, A, tok) ELSE st,
                    i, tok, A, prods, p + 1)

RECURSIVE DiagKeyLoop(_, _, _, _, _, _)
DiagKeyLoop(st, i, tok, grammar, keys, q) ==
  IF Done(st) /\ q > Len(keys) THEN st
  ELSE DiagKeyLoop(DiagProdLoop(st, i, tok, keys[q],
                                RulesOf(grammar.rules, keys[q]), 1),
                   i, tok, grammar, keys, q + 1)

\* for (let i = 0; i < n; i++)
RECURSIVE DiagLoop(_, _, _, _)
DiagLoop(st, tokens, grammar, i) ==
  IF Done(st) /\ ~(i < Len(tokens)) THEN st
  ELSE DiagLoop(DiagKeyLoop(st, i, At(tokens, i), grammar,
                            ObjectKeys(grammar.rules), 1),
                tokens, grammar, i + 1)

BinaryMatchLeftOnly(table, i, k, j, B, C) == SetHas(table[i][k], B)

\* table[i][k].has(B) && table[k + 1][j].has(C)
BinaryMatch(table, i, k, j, B, C) ==
  SetHas(table[i][k], B) /\ SetHas(table[k + 1][j], C)

AddBinarySwapped(st, i, j, A, B, C, k) ==
  [table |-> [st.table EXCEPT ![i][j] = SetAdd(@, A)],
   back  |-> [st.back EXCEPT ![i][j] =
                MapPush(@, A, [type |-> "binary", left |-> C,
                               right |-> B, split |-> k])]]

\* table[i][j].add(A); back[i][j].get(A).push({type:'binary', ...})
AddBinary(st, i, j, A, B, C, k) ==
  [table |-> [st.table EXCEPT ![i][j] = SetAdd(@, A)],
   back  |-> [st.back EXCEPT ![i][j] =
                MapPush(@, A, [type |-> "binary", left |-> B,
                               right |-> C, split |-> k])]]

RECURSIVE UpperProdLoop(_, _, _, _, _, _, _)
UpperProdLoop(st, i, j, k, A, prods, p) ==
  IF Done(st) /\ p > Len(prods) THEN st
  ELSE UpperProdLoop(
         IF Len(prods[p]) = 2
            /\ BinaryMatch(st.table, i, k, j, At(prods[p], 0), At(prods[p], 1))
         THEN AddBinary(st, i, j, A, At(prods[p], 0), At(prods[p], 1), k)
         ELSE st,
         i, j, k, A, prods, p + 1)

RECURSIVE UpperKeyLoop(_, _, _, _, _, _, _)
UpperKeyLoop(st, i, j, k, grammar, keys, q) ==
  IF Done(st) /\ q > Len(keys) THEN st
  ELSE UpperKeyLoop(UpperProdLoop(st, i, j, k, keys[q],
                                  RulesOf(grammar.rules, keys[q]), 1),
                    i, j, k, grammar, keys, q + 1)

FirstSplitSkipped(i, j) == i + 1

\* for (let k = i; k < j; k++)
FirstSplit(i, j) == i

RECURSIVE SplitLoop(_, _, _, _, _)
SplitLoop(st, i, j, k, grammar) ==
  IF Done(st) /\ ~(k < j) THEN st
  ELSE SplitLoop(UpperKeyLoop(st, i, j, k, grammar,
                              ObjectKeys(grammar.rules), 1),
                 i, j, k + 1, grammar)

\* for (let i = 0; i <= n - len; i++) { const j = i + len - 1; ... }
RECURSIVE StartLoop(_, _, _, _, _)
StartLoop(st, len, i, n, grammar) ==
  IF Done(st) /\ ~(i <= n - len) THEN st
  ELSE StartLoop(SplitLoop(st, i, i + len - 1, FirstSplit(i, i + len - 1), grammar),
                 len, i + 1, n, grammar)

\* for (let len = 2; len <= n; len++)
RECURSIVE LenLoop(_, _, _, _)
LenLoop(st, len, n, grammar) ==
  IF Done(st) /\ ~(len <= n) THEN st
  ELSE LenLoop(StartLoop(st, len, 0, n, grammar), len + 1, n, grammar)

AcceptedUnlessRefuted(table, n, grammar) ==
  table[0][n - 1] = <<>> \/ SetHas(table[0][n - 1], grammar.startSymbol)

\* table[0][n - 1].has(grammar.startSymbol)
AcceptedIn(table, n, grammar) == SetHas(table[0][n - 1], grammar.startSymbol)

NoTokensAccepting == [accepted |-> TRUE, table |-> <<>>, back |-> <<>>]

\* if (n === 0) return { accepted: false, table: [], back: [] }
NoTokens == [accepted |-> FALSE, table |-> <<>>, back |-> <<>>]

\* return { accepted: table[0][n - 1].has(grammar.startSymbol), table, back }
Returned(st, n, grammar) ==
  [accepted |-> AcceptedIn(st.table, n, grammar),
   table |-> st.table, back |-> st.back]

cykWithPointers(tokens, grammar) ==
  IF Len(tokens) = 0 THEN NoTokens
  ELSE Returned(
         LenLoop(DiagLoop([table |-> NewTable(Len(tokens)),
                           back |-> NewBack(Len(tokens))],
                          tokens, grammar, 0),
                 2, Len(tokens), grammar),
         Len(tokens), grammar)

\* ----------------------------------------------------------- buildParseTree
LastChoice(choices) == At(choices, Len(choices) - 1)

\* const first = choices[0]
FirstChoice(choices) == At(choices, 0)

RECURSIVE chooseOrNull(_, _, _, _)
chooseOrNull(back, A, i, j) ==
  IF ~MapHas(back[i][j], A) \/ Len(back[i][j][A]) = 0 THEN Null
  ELSE LET first == FirstChoice(back[i][j][A]) IN
       IF first.type = "terminal"
       THEN [label |-> A, child |-> [label |-> first.token]]
       ELSE [label |-> A,
             left  |-> chooseOrNull(back, first.left, i, first.split),
             right |-> chooseOrNull(back, first.right, first.split + 1, j)]

RECURSIVE choose(_, _, _, _)
choose(back, A, i, j) ==
  IF ~MapHas(back[i][j], A) \/ Len(back[i][j][A]) = 0 THEN [label |-> A]
  ELSE LET first == FirstChoice(back[i][j][A]) IN
       IF first.type = "terminal"
       THEN [label |-> A, child |-> [label |-> first.token]]
       ELSE [label |-> A,
             left  |-> choose(back, first.left, i, first.split),
             right |-> choose(back, first.right, first.split + 1, j)]

buildParseTreeFirstCell(grammar, tokens, back) ==
  LET n == Len(tokens) IN
  IF n = 0 THEN Null
  ELSE IF ~MapHas(back[0][0], grammar.startSymbol) THEN Null
  ELSE choose(back, grammar.startSymbol, 0, n - 1)

\* if (!n || !back || !back[0][n - 1].has(S)) return null; an array is
\* never falsy, so !back is false for every value cykWithPointers returns
buildParseTree(grammar, tokens, back) ==
  LET n == Len(tokens) IN
  IF n = 0 THEN Null
  ELSE IF ~MapHas(back[0][n - 1], grammar.startSymbol) THEN Null
  ELSE choose(back, grammar.startSymbol, 0, n - 1)

\* ------------------------------------------------------------- cykAlgorithm
\* the trace variant indexes a string: word[i] is a one-character string;
\* a step string is kept as the tuple of the values its template interpolates
\* if (n === 0) return { accepted: false, table: [], steps: [] }
NoWord == [accepted |-> FALSE, table |-> <<>>, steps |-> <<>>]

TraceDiagStep(i, char, variable) == <<"diag", i, char, variable>>

TraceUpperStep(i, j, variable, B, C, k) == <<"upper", i, j, variable, B, C, k>>

RECURSIVE TraceDiagProdLoop(_, _, _, _, _, _)
TraceDiagProdLoop(st, i, char, variable, prods, p) ==
  IF Done(st) /\ p > Len(prods) THEN st
  ELSE TraceDiagProdLoop(
         IF Len(prods[p]) = 1 /\ At(prods[p], 0) = char
         THEN [table |-> [st.table EXCEPT ![i][i] = SetAdd(@, variable)],
               steps |-> Append(st.steps, TraceDiagStep(i, char, variable))]
         ELSE st,
         i, char, variable, prods, p + 1)

RECURSIVE TraceDiagKeyLoop(_, _, _, _, _, _)
TraceDiagKeyLoop(st, i, char, grammar, keys, q) ==
  IF Done(st) /\ q > Len(keys) THEN st
  ELSE TraceDiagKeyLoop(TraceDiagProdLoop(st, i, char, keys[q],
                                          RulesOf(grammar.rules, keys[q]), 1),
                        i, char, grammar, keys, q + 1)

RECURSIVE TraceDiagLoop(_, _, _, _)
TraceDiagLoop(st, word, grammar, i) ==
  IF Done(st) /\ ~(i < Len(word)) THEN st
  ELSE TraceDiagLoop(TraceDiagKeyLoop(st, i, Str(At(word, i)), grammar,
                                      ObjectKeys(grammar.rules), 1),
                     word, grammar, i + 1)

RECURSIVE TraceUpperProdLoop(_, _, _, _, _, _, _)
TraceUpperProdLoop(st, i, j, k, variable, prods, p) ==
  IF Done(st) /\ p > Len(prods) THEN st
  ELSE TraceUpperProdLoop(
         IF Len(prods[p]) = 2
            /\ SetHas(st.table[i][k], At(prods[p], 0))
            /\ SetHas(st.table[k + 1][j], At(prods[p], 1))
         THEN [table |-> [st.table EXCEPT ![i][j] = SetAdd(@, variable)],
               steps |-> Append(st.steps,
                                TraceUpperStep(i, j, variable, At(prods[p], 0),
                                               At(prods[p], 1), k))]
         ELSE st,
         i, j, k, variable, prods, p + 1)

RECURSIVE TraceUpperKeyLoop(_, _, _, _, _, _, _)
TraceUpperKeyLoop(st, i, j, k, grammar, keys, q) ==
  IF Done(st) /\ q > Len(keys) THEN st
  ELSE TraceUpperKeyLoop(TraceUpperProdLoop(st, i, j, k, keys[q],
                                            RulesOf(grammar.rules, keys[q]), 1),
                         i, j, k, grammar, keys, q + 1)

RECURSIVE TraceSplitLoop(_, _, _, _, _)
TraceSplitLoop(st, i, j, k, grammar) ==
  IF Done(st) /\ ~(k < j) THEN st
  ELSE TraceSplitLoop(TraceUpperKeyLoop(st, i, j, k, grammar,
                                        ObjectKeys(grammar.rules), 1),
                      i, j, k + 1, grammar)

RECURSIVE TraceStartLoop(_, _, _, _, _)
TraceStartLoop(st, length, i, n, grammar) ==
  IF Done(st) /\ ~(i <= n - length) THEN st
  ELSE TraceStartLoop(TraceSplitLoop(st, i, i + length - 1, i, grammar),
                      length, i + 1, n, grammar)

RECURSIVE TraceLenLoop(_, _, _, _)
TraceLenLoop(st, length, n, grammar) ==
  IF Done(st) /\ ~(length <= n) THEN st
  ELSE TraceLenLoop(TraceStartLoop(st, length, 0, n, grammar),
                    length + 1, n, grammar)

TraceReturnedFirstCell(st, n, grammar) ==
  [accepted |-> SetHas(st.table[0][0], grammar.startSymbol),
   table |-> st.table, steps |-> st.steps]

\* const accepted = table[0][n - 1].has(grammar.startSymbol);
\* return { accepted, table, steps }
TraceReturned(st, n, grammar) ==
  [accepted |-> SetHas(st.table[0][n - 1], grammar.startSymbol),
   table |-> st.table, steps |-> st.steps]

cykAlgorithm(word, grammar) ==
  IF Len(word) = 0 THEN NoWord
  ELSE TraceReturned(
         TraceLenLoop(TraceDiagLoop([table |-> NewTable(Len(word)), steps |-> <<>>],
                                    word, grammar, 0),
                      2, Len(word), grammar),
         Len(word), grammar)

\* ------------------------------------------------------------------- state
VARIABLES
  activeTab,        \* useState("CYK")
  parsing,          \* useState(false)
  result,           \* useState(null)
  simGrammarText,   \* Simulator textarea
  simWord,          \* Simulator word input
  pgcGrammarText,   \* PGC textarea
  pgcSentence,      \* PGC sentence input
  timers,           \* callbacks scheduled by setTimeout and not yet run
  grammar,   \* the callback's g: Grammar handed to the recognizer
  tokens,    \* the callback's tokens
  cr,        \* value returned by cykWithPointers, Null before the call
  tree,      \* the callback's tree (lines 531, 645), Null before the call
  traced,    \* value returned by cykAlgorithm, Null before the call
  loop,      \* the recognizer's locals while its loops run, Null outside
  resultFrom,  \* history: the tab whose callback stored result
  pc         \* position inside one invocation of the pipeline

inputs == <<simGrammarText, simWord, pgcGrammarText, pgcSentence>>

ui == <<activeTab, parsing, result, timers>>

locals == <<grammar, tokens, cr, tree, traced>>

vars == <<activeTab, parsing, result, simGrammarText, simWord, pgcGrammarText,
          pgcSentence, timers, grammar, tokens, cr, tree, traced, loop,
          resultFrom, pc>>

\* ------------------------------------------------------- the source's values
S == Str("S")
A == Str("A")
B == Str("B")
a == Str("a")
b == Str("b")

\* useState defaults of lines 21-30
DefaultSimGrammarText ==
  <<"S", " ", "-", ">", " ", "A", "B", " ", "|", " ", "B", "C", "\n",
    "A", " ", "-", ">", " ", "B", "A", " ", "|", " ", "a", "\n", "B",
    " ", "-", ">", " ", "C", "C", " ", "|", " ", "b", "\n", "C", " ",
    "-", ">", " ", "A", "B", " ", "|", " ", "a">>

DefaultSimWord == <<"a", "b", "a", "b", "a">>

DefaultPgcGrammarText ==
  <<"S", " ", "-", ">", " ", "N", "P", " ", "V", "P", "\n", "N", "P",
    " ", "-", ">", " ", "D", "e", "t", " ", "N", "\n", "V", "P", " ",
    "-", ">", " ", "V", " ", "N", "P", "\n", "D", "e", "t", " ", "-",
    ">", " ", "\"", "t", "h", "e", "\"", " ", "|", " ", "\"", "a",
    "\"", "\n", "N", " ", "-", ">", " ", "\"", "c", "a", "t", "\"",
    " ", "|", " ", "\"", "d", "o", "g", "\"", "\n", "V", " ", "-", ">",
    " ", "\"", "c", "h", "a", "s", "e", "d", "\"">>

DefaultPgcSentence ==
  <<"t", "h", "e", " ", "c", "a", "t", " ", "c", "h", "a", "s", "e",
    "d", " ", "a", " ", "d", "o", "g">>

\* customGrammar.rules default (line 37)
ExampleRulesText ==
  <<"S", "-", ">", "A", "B", "|", "B", "A", "\n", "A", "-", ">", "a",
    "\n", "B", "-", ">", "b">>

exampleGrammarWithoutBA ==
  [variables |-> <<S, A, B>>, terminals |-> <<a, b>>, startSymbol |-> S,
   rules |-> <<[lhs |-> S, prods |-> <<<<A, B>>>>],
               [lhs |-> A, prods |-> <<<<a>>>>],
               [lhs |-> B, prods |-> <<<<b>>>>]>>]

exampleGrammar ==
  [variables |-> <<S, A, B>>, terminals |-> <<a, b>>, startSymbol |-> S,
   rules |-> <<[lhs |-> S, prods |-> <<<<A, B>>, <<B, A>>>>],
               [lhs |-> A, prods |-> <<<<a>>>>],
               [lhs |-> B, prods |-> <<<<b>>>>]>>]

InitialUi ==
  /\ activeTab = "CYK"
  /\ parsing = FALSE
  /\ result = Null
  /\ timers = <<>>
  /\ resultFrom = Null

InitialInputs ==
  /\ simGrammarText = DefaultSimGrammarText
  /\ simWord = DefaultSimWord
  /\ pgcGrammarText = DefaultPgcGrammarText
  /\ pgcSentence = DefaultPgcSentence

NoLocals ==
  /\ grammar = Null
  /\ tokens = Null
  /\ cr = Null
  /\ tree = Null
  /\ traced = Null
  /\ loop = Null

\* ------------------------------------------- bounded CNF grammars and inputs
CnfVariables == <<S, A>>
CnfTerminals == <<a, b>>

\* a CNF production: one terminal or exactly two variables
CnfProductions ==
  {<<t>> : t \in Range(CnfTerminals)}
    \cup {<<X, Y>> : X \in Range(CnfVariables), Y \in Range(CnfVariables)}

\* rules[left].push(prod) for each (left, prod) in source order, creating
\* rules[left] = [] at the first line of left
RECURSIVE RulesFromPairs(_, _)
RulesFromPairs(rules, pairs) ==
  IF Len(pairs) = 0 THEN rules
  ELSE LET left == Head(pairs)[1]
           prod == Head(pairs)[2]
           q == RuleIndex(rules, left)
       IN RulesFromPairs(
            IF q = 0 THEN Append(rules, [lhs |-> left, prods |-> <<prod>>])
            ELSE [rules EXCEPT ![q].prods = Append(@, prod)],
            Tail(pairs))

CnfGrammar(pairs, start) ==
  [variables |-> CnfVariables, terminals |-> CnfTerminals,
   startSymbol |-> start, rules |-> RulesFromPairs(<<>>, pairs)]

\* the example rules text compiled by parseGrammarFromText
CompiledExampleGrammar == parseGrammarFromText(ExampleRulesText)

CnfGrammars ==
  {CnfGrammar(pairs, S) :
     pairs \in SeqsUpTo(Range(CnfVariables) \X CnfProductions, MaxRules)}
    \cup {exampleGrammar, CompiledExampleGrammar,
          parseGrammarFromText(DefaultSimGrammarText)}

TokenSeqs == SeqsUpTo(Range(CnfTerminals), MaxLen)

\* ----------------------------------------------------- recognition pipeline
\* the statements of a Generate callback (lines 528-531, 640-645), one by one
InitCyk ==
  /\ InitialUi
  /\ InitialInputs
  /\ grammar \in CnfGrammars
  /\ tokens \in TokenSeqs
  /\ cr = Null
  /\ tree = Null
  /\ traced = Null
  /\ loop = Null
  /\ pc = "tokenized"

\* const g = parseGrammarFromText(simGrammarText)      (pgcGrammarText)
Compile ==
  /\ pc = "ready"
  /\ grammar' = parseGrammarFromText(IF activeTab = "PGC" THEN pgcGrammarText
                                     ELSE simGrammarText)
  /\ pc' = IF grammar' = TypeError THEN "threw" ELSE "compiled"
  /\ UNCHANGED <<ui, inputs, tokens, cr, tree, traced, loop, resultFrom>>

\* const tokens = ...   (line 529 in the PGC tab, lines 641-643 in Simulator)
Tokenize ==
  /\ pc = "compiled"
  /\ tokens' = IF activeTab = "PGC" THEN PgcTokens(pgcSentence)
               ELSE SimulatorTokens(simWord)
  /\ pc' = "tokenized"
  /\ UNCHANGED <<ui, inputs, grammar, cr, tree, traced, loop, resultFrom>>

RecognizeConsumingTokens ==
  /\ pc = "tokenized"
  /\ cr' = cykWithPointers(tokens, grammar)
  /\ tokens' = <<>>
  /\ pc' = "recognized"
  /\ UNCHANGED <<ui, inputs, grammar, tree, traced, loop, resultFrom>>

\* const cr = cykWithPointers(tokens, g)
Recognize ==
  /\ pc = "tokenized"
  /\ cr' = cykWithPointers(tokens, grammar)
  /\ pc' = "recognized"
  /\ UNCHANGED <<ui, inputs, grammar, tokens, tree, traced, loop, resultFrom>>

\* const tree = cr.accepted ? buildParseTree(g, tokens, cr.back) : null
TreeOf(g, toks, res) ==
  IF res.accepted THEN buildParseTree(g, toks, res.back) ELSE Null

Build ==
  /\ pc = "recognized"
  /\ tree' = TreeOf(grammar, tokens, cr)
  /\ pc' = "built"
  /\ UNCHANGED <<ui, inputs, grammar, tokens, cr, traced, loop, resultFrom>>

\* backpointers whose first cell lost its entries: back[0][0].get(A) is
\* undefined, or is an empty list
WithoutEntries(back) == [back EXCEPT ![0][0] = EmptyMap]

WithEmptyLists(back) ==
  [back EXCEPT ![0][0] = [X \in DOMAIN back[0][0] |-> <<>>]]

\* buildParseTree(g, tokens, back) called on such backpointers
BuildDamaged ==
  /\ pc = "recognized"
  /\ Len(tokens) >= 1
  /\ \E back \in {WithoutEntries(cr.back), WithEmptyLists(cr.back)} :
       tree' = buildParseTree(grammar, tokens, back)
  /\ pc' = "damaged"
  /\ UNCHANGED <<ui, inputs, grammar, tokens, cr, traced, loop, resultFrom>>

\* the word of single-character tokens, as the string the trace variant reads
WordOf(toks) == [x \in 1..Len(toks) |-> toks[x][1]]

\* const result = cykAlgorithm(input, grammar)
Trace ==
  /\ pc = "built"
  /\ \A x \in 1..Len(tokens) : Len(tokens[x]) = 1
  /\ traced' = cykAlgorithm(WordOf(tokens), grammar)
  /\ pc' = "traced"
  /\ UNCHANGED <<ui, inputs, grammar, tokens, cr, tree, loop, resultFrom>>

NextCyk == Recognize \/ Build \/ Trace \/ BuildDamaged

SpecCyk == InitCyk /\ [][NextCyk]_vars

\* -------------------------------------------- the recognizer, loop by loop
\* cykWithPointers and cykAlgorithm run one loop iteration per step, with the
\* cells whose Set is read (has) and the cells that are added to (add, set,
\* push) recorded as they are touched
IterationsLongestFirst(n) ==
  LET all == {t \in (2..n) \X (0..(n - 1)) \X (0..(n - 1)) :
                t[2] <= n - t[1] /\ t[3] >= t[2] /\ t[3] < t[2] + t[1] - 1}
      Before(s, t) ==
        \/ s[1] > t[1]
        \/ s[1] = t[1] /\ s[2] < t[2]
        \/ s[1] = t[1] /\ s[2] = t[2] /\ s[3] < t[3]
      Rank(t) == Cardinality({s \in all : Before(s, t)})
  IN [x \in 1..Cardinality(all) |-> CHOOSE t \in all : Rank(t) = x - 1]

\* the (len, i, k) of the nested loops
\*   for (let len = 2; len <= n; len++)
\*     for (let i = 0; i <= n - len; i++)
\*       for (let k = i; k < j; k++)          with j = i + len - 1
\* in the order the loops visit them
Iterations(n) ==
  LET all == {t \in (2..n) \X (0..(n - 1)) \X (0..(n - 1)) :
                t[2] <= n - t[1] /\ t[3] >= t[2] /\ t[3] < t[2] + t[1] - 1}
      Before(s, t) ==
        \/ s[1] < t[1]
        \/ s[1] = t[1] /\ s[2] < t[2]
        \/ s[1] = t[1] /\ s[2] = t[2] /\ s[3] < t[3]
      Rank(t) == Cardinality({s \in all : Before(s, t)})
  IN [x \in 1..Cardinality(all) |-> CHOOSE t \in all : Rank(t) = x - 1]

LoopNeverDone(pos, n) == FALSE

\* the conditions len <= n, i <= n - len and k < j are all false
LoopDone(pos, n) == pos > Len(Iterations(n))

\* const j = i + len - 1
SpanEnd(i, len) == i + len - 1

\* the cells read by table[i][k].has(B) && table[k + 1][j].has(C) over the
\* productions of length 2: the right cell is read only after a left hit
ReadsAt(table, i, j, k, g) ==
  LET binary == UNION {{prod \in Range(RulesOf(g.rules, X)) : Len(prod) = 2} :
                         X \in Range(ObjectKeys(g.rules))}
  IN (IF binary # {} THEN {<<i, k>>} ELSE {})
       \cup (IF \E prod \in binary : SetHas(table[i][k], prod[1])
             THEN {<<k + 1, j>>} ELSE {})

renderTableReadsAll(table) == (DOMAIN table) \X (DOMAIN table)

\* renderTable: result.table[row][col] is read only where col >= row
renderTableReads(table) ==
  {c \in (DOMAIN table) \X (DOMAIN table) : c[2] >= c[1]}

Recognizers == {"cykWithPointers", "cykAlgorithm"}

\* grammars whose rules all have the left-hand side S, and the two examples
StepGrammars ==
  {CnfGrammar(pairs, S) : pairs \in SeqsUpTo({S} \X CnfProductions, MaxRules)}
    \cup {exampleGrammar, parseGrammarFromText(DefaultSimGrammarText)}

InitSteps ==
  /\ InitialUi
  /\ InitialInputs
  /\ grammar \in StepGrammars
  /\ tokens \in TokenSeqs
  /\ cr = Null
  /\ tree = Null
  /\ traced = Null
  /\ loop = Null
  /\ pc = "called"

\* the entry of the recognizer: the early return for n === 0, or the
\* allocation of the table (and of back, or of steps)
Enter(fn) ==
  /\ pc = "called"
  /\ IF Len(tokens) = 0
     THEN /\ loop' = loop
          /\ IF fn = "cykWithPointers"
             THEN cr' = NoTokens /\ traced' = traced /\ pc' = "recognized"
             ELSE traced' = NoWord /\ cr' = cr /\ pc' = "traced"
     ELSE /\ loop' = [fn |-> fn, i |-> 0, pos |-> 1,
                      st |-> IF fn = "cykWithPointers"
                             THEN [table |-> NewTable(Len(tokens)),
                                   back |-> NewBack(Len(tokens))]
                             ELSE [table |-> NewTable(Len(tokens)),
                                   steps |-> <<>>],
                      read |-> {}, written |-> {}]
          /\ pc' = "diagonal"
          /\ UNCHANGED <<cr, traced>>
  /\ UNCHANGED <<ui, inputs, grammar, tokens, tree, resultFrom>>

\* one iteration of for (let i = 0; i < n; i++)
DiagStep ==
  /\ pc = "diagonal"
  /\ \E l \in {loop} : \E g \in {grammar} :
     \E keys \in {ObjectKeys(grammar.rules)} :
     \E tk \in {IF loop.fn = "cykWithPointers"
                THEN At(tokens, loop.i)
                ELSE Str(At(WordOf(tokens), loop.i))} :
     \E st \in {IF l.fn = "cykWithPointers"
                THEN DiagKeyLoop(l.st, l.i, tk, g, keys, 1)
                ELSE TraceDiagKeyLoop(l.st, l.i, tk, g, keys, 1)} :
       loop' = [l EXCEPT !.st = st, !.i = @ + 1,
                         !.written = IF st # l.st
                                     THEN @ \cup {<<l.i, l.i>>} ELSE @]
  /\ pc' = IF loop.i + 1 < Len(tokens) THEN "diagonal" ELSE "upper"
  /\ UNCHANGED <<ui, inputs, grammar, tokens, cr, tree, traced, resultFrom>>

\* one iteration of for (let k = i; k < j; k++)
UpperStep ==
  /\ pc = "upper"
  /\ loop.pos <= Len(Iterations(Len(tokens)))
  /\ \E l \in {loop} : \E g \in {grammar} :
     \E keys \in {ObjectKeys(grammar.rules)} :
     \E it \in {Iterations(Len(tokens))[loop.pos]} :
     \E i \in {it[2]} : \E k \in {it[3]} : \E j \in {SpanEnd(it[2], it[1])} :
     \E st \in {IF l.fn = "cykWithPointers"
                THEN UpperKeyLoop(l.st, i, j, k, g, keys, 1)
                ELSE TraceUpperKeyLoop(l.st, i, j, k, g, keys, 1)} :
     \E reads \in {ReadsAt(l.st.table, i, j, k, g)} :
       loop' = [l EXCEPT
                  !.st = st, !.pos = @ + 1,
                  !.read = @ \cup reads,
                  !.written = IF st # l.st THEN @ \cup {<<i, j>>} ELSE @]
  /\ UNCHANGED <<ui, inputs, grammar, tokens, cr, tree, traced, resultFrom, pc>>

\* the return statement, which reads table[0][n - 1]
ReturnStep ==
  /\ pc = "upper"
  /\ LoopDone(loop.pos, Len(tokens))
  /\ loop' = [loop EXCEPT !.read = @ \cup {<<0, Len(tokens) - 1>>}]
  /\ \E l \in {loop} : \E g \in {grammar} : \E n \in {Len(tokens)} :
       IF l.fn = "cykWithPointers"
       THEN /\ cr' = Returned(l.st, n, g)
            /\ traced' = traced
            /\ pc' = "recognized"
       ELSE /\ traced' = TraceReturned(l.st, n, g)
            /\ cr' = cr
            /\ pc' = "traced"
  /\ UNCHANGED <<ui, inputs, grammar, tokens, tree, resultFrom>>

\* renderTable() on the table of the result
Render ==
  /\ pc = "built"
  /\ loop' = IF loop = Null THEN loop
             ELSE [loop EXCEPT !.read = @ \cup renderTableReads(cr.table)]
  /\ pc' = "rendered"
  /\ UNCHANGED <<ui, inputs, grammar, tokens, cr, tree, traced, resultFrom>>

NextSteps ==
  \/ \E fn \in Recognizers : Enter(fn)
  \/ DiagStep
  \/ UpperStep
  \/ ReturnStep
  \/ Build
  \/ Render

SpecSteps == InitSteps /\ [][NextSteps]_vars

\* the guard of UpperStep, which always advances loop.pos: the states
\* where <<UpperStep>>_vars is enabled
UpperStepEnabled ==
  pc = "upper" /\ loop.pos <= Len(Iterations(Len(tokens)))

\* JavaScript runs a called function to its return: every statement that can
\* run does run. Weak fairness of each step; for UpperStep it is written
\* out, with the guard in place of ENABLED <<UpperStep>>_vars.
SpecStepsFair ==
  /\ SpecSteps
  /\ WF_vars(\E fn \in Recognizers : Enter(fn))
  /\ WF_vars(DiagStep)
  /\ (<>[]UpperStepEnabled => []<><<UpperStep>>_vars)
  /\ WF_vars(ReturnStep)
  /\ WF_vars(Build)
  /\ WF_vars(Render)

\* ------------------------------------------------------ compile and tokenize
\* the lines grammar texts are made of
LinePool ==
  {<<"S", "-", ">", "A", "B">>,
   <<"A", " ", "-", ">", " ", "a">>,
   <<"B", "-", ">", "b", " ", "|", " ", "a">>,
   <<"S", " ", "-", ">", " ", "A", " ", "B">>,
   <<"x">>,
   <<"-", ">", "b">>,
   <<"S", "→", "A", "B">>,
   <<"A", " ", "-", ">", " ", "\"", "a", " ", "b", "\"">>,
   <<"A", "-", ">", "B">>,
   <<"t", "o", "S", "t", "r", "i", "n", "g", "-", ">", "a">>,
   <<"1", "-", ">", "a">>}

RECURSIVE JoinLines(_)
JoinLines(lines) ==
  IF Len(lines) = 0 THEN <<>>
  ELSE IF Len(lines) = 1 THEN lines[1]
  ELSE lines[1] \o <<"\n">> \o JoinLines(Tail(lines))

GrammarTexts == {JoinLines(lines) : lines \in SeqsUpTo(LinePool, MaxLines)}

RawAlphabet == {"a", "b", " ", "\t"}

RawInputs == SeqsUpTo(RawAlphabet, MaxRaw)

ShortInputs == {<<"a", "b">>, <<"a", " ", "b">>, <<"B">>}

ActiveText == IF activeTab = "PGC" THEN pgcGrammarText ELSE simGrammarText

ActiveRaw == IF activeTab = "PGC" THEN pgcSentence ELSE simWord

\* one callback body run on the inputs of the Simulator or of the PGC tab:
\* a typed grammar text with a short input, or the default grammar text with
\* a typed input or with the default input
InitPipeline ==
  /\ activeTab \in {"Simulator", "PGC"}
  /\ parsing = FALSE
  /\ result = Null
  /\ timers = <<>>
  /\ resultFrom = Null
  /\ \/ /\ activeTab = "Simulator"
        /\ \/ simGrammarText \in GrammarTexts /\ simWord \in ShortInputs
           \/ /\ simGrammarText = DefaultSimGrammarText
              /\ simWord \in RawInputs \cup {DefaultSimWord}
        /\ pgcGrammarText = DefaultPgcGrammarText
        /\ pgcSentence = DefaultPgcSentence
     \/ /\ activeTab = "PGC"
        /\ \/ pgcGrammarText \in GrammarTexts /\ pgcSentence \in ShortInputs
           \/ /\ pgcGrammarText = DefaultPgcGrammarText
              /\ pgcSentence \in RawInputs \cup {DefaultPgcSentence}
        /\ simGrammarText = DefaultSimGrammarText
        /\ simWord = DefaultSimWord
  /\ NoLocals
  /\ pc = "ready"

NextPipeline == Compile \/ Tokenize \/ Recognize \/ Build

SpecPipeline == InitPipeline /\ [][NextPipeline]_vars

\* ------------------------------------------------------------ the application
Tabs == {"CYK", "Simulator", "PGC", "RBS", "Know", "About Us"}

\* the texts and words typed into the inputs
SimTexts == {DefaultSimGrammarText, ExampleRulesText}

SimWords == {DefaultSimWord, <<"a", "b">>, <<>>}

PgcTexts == {DefaultPgcGrammarText, <<"t", "o", "S", "t", "r", "i", "n", "g", "-", ">", "a">>}

PgcSentences == {DefaultPgcSentence, <<"t", "h", "e", " ", "c", "a", "t">>, <<>>}

Init ==
  /\ InitialUi
  /\ InitialInputs
  /\ NoLocals
  /\ pc = "idle"

\* onClick={() => setActiveTab(tab)}
SetActiveTab(tab) ==
  /\ activeTab' = tab
  /\ UNCHANGED <<parsing, result, timers, inputs, locals, pc, loop, resultFrom>>

\* onChange={(e) => setSimGrammarText(e.target.value)}
SetSimGrammarText(text) ==
  /\ activeTab = "Simulator"
  /\ simGrammarText' = text
  /\ UNCHANGED <<ui, simWord, pgcGrammarText, pgcSentence, locals, pc, loop, resultFrom>>

\* onChange={(e) => setSimWord(e.target.value)}
SetSimWord(word) ==
  /\ activeTab = "Simulator"
  /\ simWord' = word
  /\ UNCHANGED <<ui, simGrammarText, pgcGrammarText, pgcSentence, locals, pc,
               loop, resultFrom>>

\* onChange={(e) => setPgcGrammarText(e.target.value)}
SetPgcGrammarText(text) ==
  /\ activeTab = "PGC"
  /\ pgcGrammarText' = text
  /\ UNCHANGED <<ui, simGrammarText, simWord, pgcSentence, locals, pc, loop, resultFrom>>

\* onChange={(e) => setPgcSentence(e.target.value)}
SetPgcSentence(sentence) ==
  /\ activeTab = "PGC"
  /\ pgcSentence' = sentence
  /\ UNCHANGED <<ui, simGrammarText, simWord, pgcGrammarText, locals, pc,
               loop, resultFrom>>

\* the callback closes over the grammar text and the input of the render
\* in which the button was clicked
Scheduled(tab, text, raw) == [tab |-> tab, grammarText |-> text, raw |-> raw]

\* Simulator onClick (lines 637-649); disabled={!simWord || parsing}
SimulatorClick ==
  /\ activeTab = "Simulator"
  /\ ~(simWord = <<>> \/ parsing)
  /\ parsing' = TRUE
  /\ timers' = Append(timers, Scheduled("Simulator", simGrammarText, simWord))
  /\ UNCHANGED <<activeTab, result, inputs, locals, pc, loop, resultFrom>>

\* PGC onClick (lines 525-535); disabled={!pgcSentence || parsing}
PgcClick ==
  /\ activeTab = "PGC"
  /\ ~(pgcSentence = <<>> \/ parsing)
  /\ parsing' = TRUE
  /\ timers' = Append(timers, Scheduled("PGC", pgcGrammarText, pgcSentence))
  /\ UNCHANGED <<activeTab, result, inputs, locals, pc, loop, resultFrom>>

\* setResult({ accepted: cr.accepted, table: cr.table, steps: [], tree })
ResultOf(res, t) ==
  [accepted |-> res.accepted, table |-> res.table, steps |-> <<>>, tree |-> t]

\* the body of a setTimeout callback; a TypeError thrown by the compiler ends
\* the callback before setResult and setParsing(false)
Callback(toks) ==
  \E g \in {parseGrammarFromText(Head(timers).grammarText)} :
    /\ timers' = Tail(timers)
    /\ grammar' = g
    /\ IF g = TypeError
       THEN UNCHANGED <<tokens, cr, tree, result, parsing, resultFrom>>
       ELSE \E res \in {cykWithPointers(toks, g)} :
            \E t \in {TreeOf(g, toks, res)} :
              /\ tokens' = toks
              /\ cr' = res
              /\ tree' = t
              /\ result' = ResultOf(res, t)
              /\ resultFrom' = Head(timers).tab
              /\ parsing' = FALSE
    /\ UNCHANGED <<activeTab, inputs, traced, loop, pc>>

\* the callback of lines 639-648
SimulatorTimer ==
  /\ timers # <<>>
  /\ Head(timers).tab = "Simulator"
  /\ Callback(SimulatorTokens(Head(timers).raw))

\* the callback of lines 527-534
PgcTimer ==
  /\ timers # <<>>
  /\ Head(timers).tab = "PGC"
  /\ Callback(PgcTokens(Head(timers).raw))

Next ==
  \/ \E tab \in Tabs : SetActiveTab(tab)
  \/ \E text \in SimTexts : SetSimGrammarText(text)
  \/ \E word \in SimWords : SetSimWord(word)
  \/ \E text \in PgcTexts : SetPgcGrammarText(text)
  \/ \E sentence \in PgcSentences : SetPgcSentence(sentence)
  \/ SimulatorClick
  \/ PgcClick
  \/ SimulatorTimer
  \/ PgcTimer

Spec == Init /\ [][Next]_vars

\* =================================================================== claims
\* reference semantics: X derives tokens[i..j] by standard CNF derivation,
\* decided top-down over every production and every split
RECURSIVE Derives(_, _, _, _, _)
Derives(g, toks, X, i, j) ==
  /\ HasRule(g.rules, X)
  /\ \E p \in 1..Len(RulesOf(g.rules, X)) :
       LET prod == RulesOf(g.rules, X)[p] IN
       IF i = j THEN prod = <<At(toks, i)>>
       ELSE /\ Len(prod) = 2
            /\ \E k \in i..(j - 1) : /\ Derives(g, toks, prod[1], i, k)
                                     /\ Derives(g, toks, prod[2], k + 1, j)

IsCnf(g) ==
  /\ Range(g.variables) \cap Range(g.terminals) = {}
  /\ \A q \in 1..Len(g.rules) : \A p \in 1..Len(g.rules[q].prods) :
       LET prod == g.rules[q].prods[p] IN
       \/ Len(prod) = 1 /\ prod[1] \in Range(g.terminals)
       \/ Len(prod) = 2 /\ prod[1] \in Range(g.variables) /\ prod[2] \in Range(g.variables)

LeftSides(g) == {g.rules[q].lhs : q \in 1..Len(g.rules)}

\* cr is set by Recognize and tree by Build, and no later step changes them
Recognized == pc = "recognized"

Built == pc = "built"

LastIndex == Len(tokens) - 1

\* C1: for a CNF grammar and a non-empty token sequence, accepted is true
\* exactly when the start symbol derives the whole sequence.
C1_AcceptedIffDerives ==
  (Recognized /\ Len(tokens) >= 1 /\ IsCnf(grammar)) =>
    (cr.accepted <=> Derives(grammar, tokens, grammar.startSymbol, 0, LastIndex))

C1_Witness ==
  /\ pc = "recognized" /\ Len(tokens) >= 3 /\ IsCnf(grammar)
  /\ cr.accepted
  /\ \E r \in Range(cr.back[0][LastIndex][grammar.startSymbol]) : r.split > 0

\* C2: every cell (i, j), i <= j, holds exactly the left-hand sides that
\* derive tokens[i..j].
C2_CellsExact ==
  (Recognized /\ Len(tokens) >= 1 /\ IsCnf(grammar)) =>
    \A i \in 0..LastIndex : \A j \in i..LastIndex :
      Range(cr.table[i][j]) =
        {X \in LeftSides(grammar) : Derives(grammar, tokens, X, i, j)}

C2_Witness ==
  /\ pc = "recognized" /\ Len(tokens) >= 3 /\ IsCnf(grammar)
  /\ cr.table[0][LastIndex] # <<>>
  /\ cr.table[0][1] = <<>>
  /\ cr.table[1][2] # <<>>

\* C3: with no tokens both recognizers return accepted = false with empty
\* table and empty backpointers / steps, and buildParseTree returns null.
C3_EmptyInput ==
  /\ (Recognized /\ Len(tokens) = 0) =>
       /\ cr = [accepted |-> FALSE, table |-> <<>>, back |-> <<>>]
       /\ buildParseTree(grammar, tokens, cr.back) = Null
  /\ (pc = "traced" /\ Len(tokens) = 0) =>
       traced = [accepted |-> FALSE, table |-> <<>>, steps |-> <<>>]

C3_Witness ==
  pc = "traced" /\ Len(tokens) = 0 /\ Len(grammar.rules) >= 2 /\ tree = Null

IsTerminalNode(node) == "child" \in DOMAIN node

IsBinaryNode(node) == "left" \in DOMAIN node

RECURSIVE Leaves(_)
Leaves(node) ==
  IF IsTerminalNode(node) THEN <<node.child.label>>
  ELSE IF IsBinaryNode(node) THEN Leaves(node.left) \o Leaves(node.right)
  ELSE <<>>

RECURSIVE BinaryNodes(_)
BinaryNodes(node) ==
  IF IsBinaryNode(node) THEN 1 + BinaryNodes(node.left) + BinaryNodes(node.right)
  ELSE 0

RECURSIVE ValidNodes(_, _)
ValidNodes(g, node) ==
  IF IsTerminalNode(node)
  THEN HasRule(g.rules, node.label)
       /\ <<node.child.label>> \in Range(RulesOf(g.rules, node.label))
  ELSE IF IsBinaryNode(node)
  THEN /\ HasRule(g.rules, node.label)
       /\ <<node.left.label, node.right.label>> \in Range(RulesOf(g.rules, node.label))
       /\ ValidNodes(g, node.left)
       /\ ValidNodes(g, node.right)
  ELSE TRUE

\* C8: for an accepted input the tree is a derivation of the input: root is
\* the start symbol, every node uses a production of its label, the terminal
\* children spell the tokens, with n leaves and n - 1 binary nodes.
C8_TreeIsDerivation ==
  (Built /\ cr.accepted) =>
    /\ tree # Null
    /\ tree.label = grammar.startSymbol
    /\ ValidNodes(grammar, tree)
    /\ Leaves(tree) = tokens
    /\ BinaryNodes(tree) = Len(tokens) - 1

C8_Witness ==
  /\ pc = "built" /\ cr.accepted /\ Len(tokens) >= 3
  /\ IsBinaryNode(tree)
  /\ IsBinaryNode(tree.left) \/ IsBinaryNode(tree.right)

\* the node built for (A, i, j) expands A by the first record of
\* back[i][j][A], recursively
RECURSIVE FollowsFirst(_, _, _, _)
FollowsFirst(back, node, i, j) ==
  /\ MapHas(back[i][j], node.label)
  /\ LET first == back[i][j][node.label][1] IN
     IF first.type = "terminal"
     THEN IsTerminalNode(node) /\ node.child.label = first.token
     ELSE /\ IsBinaryNode(node)
          /\ node.left.label = first.left
          /\ node.right.label = first.right
          /\ FollowsFirst(back, node.left, i, first.split)
          /\ FollowsFirst(back, node.right, first.split + 1, j)

\* the backpointers with every record after the first one dropped
FirstOnly(back) ==
  [i \in DOMAIN back |-> [j \in DOMAIN back[i] |->
     [X \in DOMAIN back[i][j] |-> <<back[i][j][X][1]>>]]]

\* C9: the tree is the one fixed by the first record appended at each node;
\* later records have no influence.
C9_FirstRecordWins ==
  (Built /\ cr.accepted) =>
    /\ FollowsFirst(cr.back, tree, 0, LastIndex)
    /\ buildParseTree(grammar, tokens, FirstOnly(cr.back)) = tree

C9_Witness ==
  /\ pc = "built" /\ cr.accepted /\ Len(tokens) >= 3
  /\ LET recs == cr.back[0][LastIndex][grammar.startSymbol] IN
     /\ Len(recs) >= 2
     /\ recs[1].split # recs[Len(recs)].split
     /\ Len(Leaves(tree.left)) # recs[Len(recs)].split + 1

HasSpace(s) == \E x \in 1..Len(s) : IsSpace(s[x])

\* the maximal runs of non-whitespace characters of s, in order
NonSpaceRuns(s) ==
  LET starts == Ascending({x \in 1..Len(s) :
                   ~IsSpace(s[x]) /\ (x = 1 \/ IsSpace(s[x - 1]))})
      EndOf(x) == Least({y \in x..Len(s) :
                   ~IsSpace(s[y]) /\ (y = Len(s) \/ IsSpace(s[y + 1]))})
  IN [k \in 1..Len(starts) |-> SubSeq(s, starts[k], EndOf(starts[k]))]

\* C4: an input with whitespace is tokenized into its words, an input
\* without whitespace into its characters, in both tabs.
C4_TokenizerModes ==
  pc = "tokenized" =>
    tokens = IF HasSpace(ActiveRaw) THEN NonSpaceRuns(ActiveRaw)
             ELSE SplitEmpty(ActiveRaw)

C7_TreeIffAccepted ==
  result # Null => (result.tree # Null <=> result.accepted)

C7_Witness ==
  /\ result # Null /\ result.accepted /\ result.tree # Null
  /\ Cardinality(DOMAIN result.table) = 5
  /\ IsBinaryNode(result.tree)
  /\ parsing = FALSE

ContainsArrow(line) ==
  \E x \in 1..Len(line) :
    \/ line[x] = "→"
    \/ line[x] = "-" /\ x < Len(line) /\ line[x + 1] = ">"

\* the non-empty lines of the text that contain an arrow marker
AcceptedLines(text) == SelectSeq(LinesOf(text), ContainsArrow)

\* C10: startSymbol is the left-hand side of the first line that contains an
\* arrow marker, however many arrow-less lines precede it.
C10_StartIsFirstAcceptedLeft ==
  (pc = "compiled" /\ AcceptedLines(ActiveText) # <<>>) =>
    grammar.startSymbol =
      LeftSide(AcceptedLines(ActiveText)[1], Splitter(AcceptedLines(ActiveText)[1]))

\* the text with every Unicode arrow written as the ASCII arrow
AsciiArrows(s) ==
  LET Before(x) == Cardinality({y \in 1..(x - 1) : s[y] = "→"})
      total == Len(s) + Before(Len(s) + 1)
      Src(k) == CHOOSE x \in 1..Len(s) :
                  \/ x + Before(x) = k
                  \/ s[x] = "→" /\ x + Before(x) + 1 = k
  IN [k \in 1..total |->
        IF s[Src(k)] # "→" THEN s[Src(k)]
        ELSE IF Src(k) + Before(Src(k)) = k THEN "-" ELSE ">"]

\* C11: a grammar text compiles to the same left-hand sides and productions
\* when its Unicode arrows are written as ASCII arrows, with or without
\* spaces around the arrow.
C11_ArrowEquivalence ==
  pc = "compiled" =>
    grammar.rules = parseGrammarFromText(AsciiArrows(ActiveText)).rules

\* C12: every production stored by the compiler is one symbol that is a
\* terminal or two symbols that are both variables.
C12_CompiledIsCnf ==
  pc = "compiled" =>
    \A q \in 1..Len(grammar.rules) : \A p \in 1..Len(grammar.rules[q].prods) :
      LET prod == grammar.rules[q].prods[p] IN
      \/ Len(prod) = 1 /\ prod[1] \in Range(grammar.terminals)
      \/ Len(prod) = 2 /\ prod[1] \in Range(grammar.variables)
                       /\ prod[2] \in Range(grammar.variables)

\* C13: a variable enters a diagonal cell only through a production whose
\* one symbol is a terminal equal to the token; an alias production, whose
\* symbol the compiler registered as a variable, never fills a diagonal cell.
C13_DiagonalOnlyByTerminals ==
  (pc = "recognized" /\ Len(tokens) >= 1) =>
    \A i \in 0..LastIndex : \A X \in Range(cr.table[i][i]) :
      /\ At(tokens, i) \in Range(grammar.terminals)
      /\ <<At(tokens, i)>> \in Range(RulesOf(grammar.rules, X))

\* a rule line with one quoted alternative of two words, and its sentence
QuotedLine == <<"A", " ", "-", ">", " ", "\"", "a", " ", "b", "\"">>

QuotedSentence == <<"a", " ", "b">>

\* C14: a quoted alternative compiles to one terminal production holding the
\* quoted text, which joins terminals, and the sentence made of the quoted
\* words is accepted.
C14_QuotedTerminals ==
  (ActiveText = QuotedLine /\ ActiveRaw = QuotedSentence) =>
    /\ pc \in {"compiled", "tokenized", "recognized", "built"} =>
         /\ grammar.rules = <<[lhs |-> A, prods |-> <<<<QuotedSentence>>>>]>>
         /\ grammar.terminals = <<QuotedSentence>>
    /\ pc \in {"recognized", "built"} => cr.accepted

\* C15: the compiler returns a Grammar for every text, and the lines without
\* an arrow marker add no rule, no variable and no terminal.
C15_CompileNeverRaises ==
  /\ pc # "threw"
  /\ pc = "compiled" =>
       LET g == parseGrammarFromText(JoinLines(AcceptedLines(ActiveText))) IN
       /\ grammar.rules = g.rules
       /\ grammar.variables = g.variables
       /\ grammar.terminals = g.terminals

\* C16: cykWithPointers returns a result for every compiled grammar and every
\* token sequence, and a grammar text without any rule line gives
\* accepted = false for every non-empty token sequence.
C16_RecognitionNeverRaises ==
  pc = "recognized" =>
    /\ cr.accepted \in BOOLEAN
    /\ DOMAIN cr.table = 0..LastIndex
    /\ DOMAIN cr.back = 0..LastIndex
    /\ (AcceptedLines(ActiveText) = <<>> /\ Len(tokens) >= 1) => ~cr.accepted

C16_Witness ==
  /\ pc = "recognized"
  /\ LinesOf(ActiveText) # <<>> /\ AcceptedLines(ActiveText) = <<>>
  /\ Len(tokens) >= 2
  /\ ~cr.accepted

\* the number of backpointer records held by the listed (i, j, A) entries
RECURSIVE CountRecords(_, _)
CountRecords(back, entries) ==
  IF entries = {} THEN 0
  ELSE LET e == CHOOSE e \in entries : TRUE IN
       Len(back[e[1]][e[2]][e[3]]) + CountRecords(back, entries \ {e})

TotalRecords(back) ==
  CountRecords(back, {e \in (DOMAIN back) \X (DOMAIN back) \X LeftSides(grammar) :
                        MapHas(back[e[1]][e[2]], e[3])})

\* C17: on single-character tokens the trace variant returns the accepted
\* value and the cell sets of cykWithPointers, and one step per backpointer
\* record.
C17_TraceConsistent ==
  pc = "traced" =>
    /\ traced.accepted = cr.accepted
    /\ DOMAIN traced.table = DOMAIN cr.table
    /\ \A i \in DOMAIN cr.table : \A j \in DOMAIN cr.table :
         Range(traced.table[i][j]) = Range(cr.table[i][j])
    /\ Len(traced.steps) = TotalRecords(cr.back)

C17_Witness ==
  /\ pc = "traced" /\ Len(tokens) >= 3
  /\ traced.accepted
  /\ ~SetHas(traced.table[0][0], grammar.startSymbol)
  /\ Len(traced.steps) >= 6

\* C18: with the example grammar, hard-coded or compiled from its text, the
\* recognizer accepts exactly ab and ba among the strings over {a, b}; for
\* ab, S is in table[0][1] and the tree is S over A (a) and B (b).
C18_ExampleGrammar ==
  (Built /\ grammar \in {exampleGrammar, CompiledExampleGrammar}) =>
    /\ cr.accepted <=> tokens \in {<<a, b>>, <<b, a>>}
    /\ tokens = <<a, b>> =>
         /\ SetHas(cr.table[0][1], S)
         /\ tree = [label |-> S,
                    left  |-> [label |-> A, child |-> [label |-> a]],
                    right |-> [label |-> B, child |-> [label |-> b]]]

C18_Witness ==
  /\ pc = "built"
  /\ grammar = exampleGrammar /\ grammar = CompiledExampleGrammar
  /\ tokens = <<a, b>>
  /\ cr.accepted /\ IsBinaryNode(tree)

\* the rules the default Simulator text stands for
DefaultSimRules ==
  <<[lhs |-> S, prods |-> <<<<A, B>>, <<B, Str("C")>>>>],
    [lhs |-> A, prods |-> <<<<B, A>>, <<a>>>>],
    [lhs |-> B, prods |-> <<<<Str("C"), Str("C")>>, <<b>>>>],
    [lhs |-> Str("C"), prods |-> <<<<A, B>>, <<a>>>>]>>

SimulatorDefaults ==
  /\ activeTab = "Simulator"
  /\ simGrammarText = DefaultSimGrammarText
  /\ simWord = DefaultSimWord

\* C19: the default Simulator text compiles its two-letter alternatives to
\* binary productions, and the default word ababa, tokenized into
\* characters, is accepted.
C19_SimulatorDefaultAccepted ==
  SimulatorDefaults =>
    /\ pc \in {"compiled", "tokenized", "recognized", "built"} =>
         grammar.rules = DefaultSimRules
    /\ pc \in {"tokenized", "recognized", "built"} =>
         tokens = <<a, b, a, b, a>>
    /\ pc \in {"recognized", "built"} => cr.accepted

C19_Witness ==
  /\ SimulatorDefaults /\ pc = "built"
  /\ Len(tokens) = 5 /\ cr.accepted /\ IsBinaryNode(tree)

PgcDefaults ==
  /\ activeTab = "PGC"
  /\ pgcGrammarText = DefaultPgcGrammarText
  /\ pgcSentence = DefaultPgcSentence

NP == <<"N", "P">>

VP == <<"V", "P">>

\* C20: with the default PGC grammar the sentence "the cat chased a dog" is
\* accepted, with S in table[0][4], NP in table[0][1] and table[3][4], VP in
\* table[2][4], and the tree is S over NP and VP, that VP over V and NP.
C20_PgcDefaultAccepted ==
  PgcDefaults =>
    /\ pc \in {"recognized", "built"} =>
         /\ Len(tokens) = 5
         /\ cr.accepted
         /\ SetHas(cr.table[0][4], S)
         /\ SetHas(cr.table[0][1], NP)
         /\ SetHas(cr.table[3][4], NP)
         /\ SetHas(cr.table[2][4], VP)
    /\ pc = "built" =>
         /\ tree # Null
         /\ tree.label = S
         /\ tree.left.label = NP
         /\ tree.right.label = VP
         /\ tree.right.left.label = Str("V")
         /\ tree.right.right.label = NP

C20_Witness ==
  /\ PgcDefaults /\ pc = "built"
  /\ cr.accepted
  /\ IsBinaryNode(tree.left) /\ IsBinaryNode(tree.right.right)
  /\ IsTerminalNode(tree.right.left)

RegisteredOrder(g) == [q \in 1..Len(g.rules) |-> g.rules[q].lhs]

\* the sequence without its elements that are not in the set
Restricted(seq, set) == SelectSeq(seq, LAMBDA x : x \in set)

\* C22: the recognizer visits the left-hand sides in the order the compiler
\* first registered them, whatever their names, so that the members of a
\* cell appear in registration order.
C22_RuleOrderPreserved ==
  /\ pc = "compiled" => ObjectKeys(grammar.rules) = RegisteredOrder(grammar)
  /\ (pc = "recognized" /\ Len(tokens) >= 1) =>
       \A i \in 0..LastIndex :
         cr.table[i][i] =
           Restricted(RegisteredOrder(grammar), Range(cr.table[i][i]))

\* the productions of X that succeed for the span (i, j) at split k, in the
\* order X lists them
BinarySuccesses(g, table, X, i, j, k) ==
  SelectSeq(RulesOf(g.rules, X),
            LAMBDA prod : /\ Len(prod) = 2
                          /\ SetHas(table[i][k], prod[1])
                          /\ SetHas(table[k + 1][j], prod[2]))

TerminalSuccesses(g, X, tok) ==
  SelectSeq(RulesOf(g.rules, X), LAMBDA prod : prod = <<tok>>)

RECURSIVE CountSuccesses(_, _, _, _, _, _)
CountSuccesses(g, table, X, i, j, k) ==
  IF k >= j THEN 0
  ELSE Len(BinarySuccesses(g, table, X, i, j, k))
         + CountSuccesses(g, table, X, i, j, k + 1)

\* C24: at return the keys of every backpointer cell are the members of the
\* table cell, each with a non-empty list; diagonal records are terminal with
\* the token of the cell; an off-diagonal record of A has i <= split < j, a
\* production [left, right] of A, left in table[i][split] and right in
\* table[split + 1][j]; and there is one record per successful attempt.
C24_BackpointersConsistent ==
  (Recognized /\ Len(tokens) >= 1) =>
    \A i \in 0..LastIndex : \A j \in i..LastIndex :
      /\ DOMAIN cr.back[i][j] = Range(cr.table[i][j])
      /\ \A X \in DOMAIN cr.back[i][j] :
           LET recs == cr.back[i][j][X] IN
           /\ Len(recs) >= 1
           /\ i = j =>
                /\ \A r \in Range(recs) :
                     r = [type |-> "terminal", token |-> At(tokens, i)]
                /\ Len(recs) = Len(TerminalSuccesses(grammar, X, At(tokens, i)))
           /\ i < j =>
                /\ \A r \in Range(recs) :
                     /\ r.type = "binary"
                     /\ i <= r.split /\ r.split < j
                     /\ <<r.left, r.right>> \in Range(RulesOf(grammar.rules, X))
                     /\ SetHas(cr.table[i][r.split], r.left)
                     /\ SetHas(cr.table[r.split + 1][j], r.right)
                /\ Len(recs) = CountSuccesses(grammar, cr.table, X, i, j, i)

C24_Witness ==
  /\ pc = "recognized" /\ Len(tokens) >= 3
  /\ \E X \in DOMAIN cr.back[0][LastIndex] : Len(cr.back[0][LastIndex][X]) >= 2
  /\ \E i \in 0..LastIndex : Cardinality(DOMAIN cr.back[i][i]) >= 2

\* the records of the successful attempts for A in the span (i, j), by
\* increasing split and, within one split, in the order A lists its productions
RECURSIVE ExpectedRecords(_, _, _, _, _, _)
ExpectedRecords(g, table, X, i, j, k) ==
  IF k >= j THEN <<>>
  ELSE LET hits == BinarySuccesses(g, table, X, i, j, k) IN
       [x \in 1..Len(hits) |-> [type |-> "binary", left |-> hits[x][1],
                                right |-> hits[x][2], split |-> k]]
         \o ExpectedRecords(g, table, X, i, j, k + 1)

\* C27: every record list of an off-diagonal cell is ordered by split and,
\* within a split, by production position, so its first record has the
\* smallest split at which any production of the variable succeeds.
C27_RecordsOrderedBySplit ==
  (Recognized /\ Len(tokens) >= 2) =>
    \A i \in 0..LastIndex : \A j \in (i + 1)..LastIndex :
      \A X \in DOMAIN cr.back[i][j] :
        LET recs == cr.back[i][j][X] IN
        /\ recs = ExpectedRecords(grammar, cr.table, X, i, j, i)
        /\ \A x \in 1..(Len(recs) - 1) : recs[x].split <= recs[x + 1].split
        /\ \A k \in i..(j - 1) :
             BinarySuccesses(grammar, cr.table, X, i, j, k) # <<>> =>
               recs[1].split <= k

\* a production listed earlier succeeds only at a larger split than the one
\* of the first record
C27_Witness ==
  /\ pc = "recognized" /\ Len(tokens) >= 3
  /\ \E X \in DOMAIN cr.back[0][LastIndex] :
       LET recs == cr.back[0][LastIndex][X]
           prods == RulesOf(grammar.rules, X)
       IN /\ Len(recs) >= 2
          /\ recs[1].split < recs[Len(recs)].split
          /\ <<recs[1].left, recs[1].right>> = prods[Len(prods)]
          /\ <<recs[Len(recs)].left, recs[Len(recs)].right>> = prods[1]
          /\ prods[1] # prods[Len(prods)]

RECURSIVE HasBareNode(_)
HasBareNode(node) ==
  IF IsTerminalNode(node) THEN FALSE
  ELSE IF IsBinaryNode(node)
  THEN HasBareNode(node.left) \/ HasBareNode(node.right)
  ELSE TRUE

\* the tree with the node over the first token replaced by a bare label
RECURSIVE FirstLeafBared(_)
FirstLeafBared(node) ==
  IF IsBinaryNode(node)
  THEN [node EXCEPT !.left = FirstLeafBared(node.left)]
  ELSE [label |-> node.label]

\* C25: the tree built from the recognizer's backpointers of an accepted
\* input has no bare-label node; and where a cell has no entry, or an empty
\* list, for the requested variable, choose returns the bare node for it and
\* the rest of the tree is built as usual.
C25_BareNodeOnlyWhenMissing ==
  /\ (Built /\ cr.accepted) => tree # Null /\ ~HasBareNode(tree)
  /\ pc = "damaged" =>
       LET whole == buildParseTree(grammar, tokens, cr.back) IN
       IF whole = Null THEN tree = Null
       ELSE IF Len(tokens) = 1 THEN tree \in {Null, [label |-> whole.label]}
       ELSE tree = FirstLeafBared(whole)

C25_Witness ==
  /\ pc = "damaged" /\ Len(tokens) >= 3
  /\ tree # Null /\ IsBinaryNode(tree)
  /\ HasBareNode(tree)
  /\ Len(Leaves(tree)) = Len(tokens) - 1

\* C23: no cell with i > j is read or added to by the recognizers or read by
\* renderTable, and such cells stay empty.
C23_TriangularInvariant ==
  loop # Null =>
    /\ \A c \in loop.read \cup loop.written :
         0 <= c[1] /\ c[1] <= c[2] /\ c[2] < Len(tokens)
    /\ \A i \in 0..LastIndex : \A j \in 0..LastIndex :
         i > j =>
           /\ loop.st.table[i][j] = <<>>
           /\ loop.fn = "cykWithPointers" => loop.st.back[i][j] = EmptyMap

C23_Witness ==
  /\ pc = "rendered" /\ Len(tokens) >= 3
  /\ Cardinality(loop.read) >= 6
  /\ <<0, LastIndex>> \in loop.written
  /\ <<1, LastIndex>> \in loop.read

\* the oldest scheduled callback leaves the timer queue; the only steps of
\* Next that do this are SimulatorTimer and PgcTimer
TimerRuns == timers # <<>> /\ timers' = Tail(timers)

\* the browser runs every timer callback that is due
SpecFair == Spec /\ WF_timers(TimerRuns)

\* C28: a cell that has been read as a sub-span is final: no later step
\* changes it; and the cells are first added to in order of increasing span
\* length.
C28_ReadCellsAreFinal ==
  [][(loop # Null /\ loop' # Null) =>
       /\ \A c \in loop.read :
            loop'.st.table[c[1]][c[2]] = loop.st.table[c[1]][c[2]]
       /\ \A c \in loop'.written \ loop.written : \A d \in loop.written :
            d[2] - d[1] <= c[2] - c[1]]_vars

C28_Witness ==
  /\ pc = "upper" /\ Len(tokens) >= 3
  /\ loop.pos > Len(Iterations(Len(tokens)))
  /\ <<0, 1>> \in loop.read /\ <<0, 1>> \in loop.written
  /\ <<1, LastIndex>> \in loop.read

\* the number of nested calls of choose that built the node
RECURSIVE Depth(_)
Depth(node) ==
  IF IsBinaryNode(node)
  THEN 1 + (IF Depth(node.left) >= Depth(node.right)
            THEN Depth(node.left) ELSE Depth(node.right))
  ELSE 1

\* every call of choose made for the node (A, i, j) is for a strictly
\* shorter span inside (i, j)
RECURSIVE ShrinkingSpans(_, _, _, _)
ShrinkingSpans(back, node, i, j) ==
  IF IsBinaryNode(node)
  THEN LET first == back[i][j][node.label][1] IN
       /\ i <= first.split /\ first.split < j
       /\ ShrinkingSpans(back, node.left, i, first.split)
       /\ ShrinkingSpans(back, node.right, first.split + 1, j)
  ELSE i = j

Finished == pc \in {"rendered", "traced"}

\* C26: the recognizer returns after finitely many loop iterations, and
\* buildParseTree recurses only into strictly shorter spans, never deeper
\* than the number of tokens.
C26_Terminates ==
  /\ <>Finished
  /\ [](pc = "built" /\ tree # Null =>
          /\ ShrinkingSpans(cr.back, tree, 0, LastIndex)
          /\ Depth(tree) <= Len(tokens))

C26_Witness ==
  /\ pc = "rendered" /\ Len(tokens) >= 3
  /\ tree # Null
  /\ Depth(tree) = Len(tokens)
  /\ loop.pos = Len(Iterations(Len(tokens))) + 1


\* C29: whenever parsing is true it eventually becomes false again: the
\* timer callback of every Generate click stores a result and resets the flag.
C29_ParsingEventuallyResets == parsing ~> ~parsing

\* C30: a result displayed under the Simulator or the PGC tab was stored by
\* the callback of that tab's own Generate click.
C30_ResultIsActiveTabsOwn ==
  (result # Null /\ activeTab \in {"Simulator", "PGC"}) =>
    resultFrom = activeTab

====
